---------------------------- MODULE Spec2Model ----------------------------
(***************************************************************************)
(* A model of the canvas shooter (game.js, InputHandler.js, Player.js,     *)
(* Projectile.js, Enemy.js, Particle.js, ScoreManager.js).                  *)
(*                                                                         *)
(* Numbers.  JavaScript numbers are modelled in fixed point: every length, *)
(* position, velocity component and direction component is an integer     *)
(* count of 1/Scale pixels (1.0 is Scale).  Alpha is an integer count of   *)
(* hundredths.  Distances are floor(sqrt(.)) of exact integer squares, so  *)
(* a test  hypot(dx, dy) - r1 - r2 < 1  is decided exactly on the          *)
(* fixed-point values.                                                     *)
(*                                                                         *)
(* Scheduling.  The browser is modelled by the callbacks it holds: the     *)
(* requested animation frames, the active timeouts and intervals and the   *)
(* registered event listeners.  A callback runs to completion as one       *)
(* action (single-threaded event loop); which pending callback runs next   *)
(* is a nondeterministic choice.                                           *)
(***************************************************************************)
EXTENDS Integers, Sequences, FiniteSets, TLC

\* ------------------------------------------------------------------ bounds
\* Fixed-point resolution: units per pixel.
Scale == 100
\* canvas.width and canvas.height (innerWidth, innerHeight), in pixels.
CanvasWidth == 25
CanvasHeight == 25
\* Callbacks and events the browser delivers over a whole run (animation
\* frames, timer callbacks, input events, gsap ticks, restart clicks), and
\* startGame calls.
MaxSteps == 6
MaxSessions == 3
\* Of those steps: spawn callbacks, level-ups, clicks, key events, mouse moves.
MaxSpawns == 2
MaxLevelUps == 2
MaxClicks == 2
MaxKeyEvents == 1
MaxMouseMoves == 1
\* Levels at which the level formulas are evaluated on their own
MaxLevel == 60

\* ------------------------------------------------------- program constants
PlayerRadius == 10
PlayerSpeed == 3
ProjectileRadius == 5
ProjectileSpeed == 5
ShrinkAmount == 10
KillThreshold == 5
ShrinkPoints == 10
KillPoints == 100
ShrinkParticles == 8
KillParticles == 24
InitialSpawnDelay == 1000
SpawnDelayStep == 75
MinSpawnDelay == 200
\* friction 0.98 and the alpha step 0.01, both in hundredths
FrictionPercent == 98
AlphaStep == 1
InitialAlpha == 100

\* ------------------------------------------------------------- arithmetic
Max(a, b) == IF a >= b THEN a ELSE b
Min(a, b) == IF a <= b THEN a ELSE b

\* a / b rounded to the nearest integer (b > 0)
RoundDiv(a, b) == (2 * a + b) \div (2 * b)

RECURSIVE SqrtSearch(_, _, _)
SqrtSearch(n, lo, hi) ==
  IF lo >= hi THEN lo
  ELSE LET mid == (lo + hi + 1) \div 2
       IN IF mid * mid <= n THEN SqrtSearch(n, mid, hi)
                            ELSE SqrtSearch(n, lo, mid - 1)

\* floor(sqrt(n)) for 0 <= n < 2^31
ISqrt(n) == SqrtSearch(n, 0, 46340)

\* Math.hypot on fixed-point arguments, rounded down to the resolution
Hypot(dx, dy) == ISqrt(dx * dx + dy * dy)

\* (Math.cos(Math.atan2(dy, dx)), Math.sin(Math.atan2(dy, dx))): the unit
\* vector along (dx, dy); Math.atan2(0, 0) is 0, whose cosine is 1.
UnitVector(dx, dy) ==
  IF dx = 0 /\ dy = 0 THEN [horizontal |-> Scale, vertical |-> 0]
  ELSE LET length == Hypot(dx, dy)
       IN [horizontal |-> RoundDiv(dx * Scale, length),
           vertical   |-> RoundDiv(dy * Scale, length)]

\* ------------------------------------------------------------ InputHandler
MovementKeys == {"KeyW", "KeyA", "KeyS", "KeyD",
                 "ArrowUp", "ArrowLeft", "ArrowDown", "ArrowRight",
                 "KeyQ", "KeyE", "KeyZ", "KeyC"}
KeyCodes == MovementKeys \cup {"Space", "KeyX"}

Has(pressedKeys, code) == code \in pressedKeys

\* A mutant of RawDirection: the two keys of a cardinal direction count
\* separately.
RawDirectionCountsEveryKey(pressedKeys) ==
  LET held(code) == IF Has(pressedKeys, code) THEN 1 ELSE 0
  IN [directionX |-> held("KeyD") + held("ArrowRight") - held("KeyA") - held("ArrowLeft")
                       - held("KeyQ") + held("KeyE") - held("KeyZ") + held("KeyC"),
      directionY |-> held("KeyS") + held("ArrowDown") - held("KeyW") - held("ArrowUp")
                       - held("KeyQ") - held("KeyE") + held("KeyZ") + held("KeyC")]

\* The sum getDirection() forms before it normalizes (lines 46-59).
RawDirection(pressedKeys) ==
  LET up    == IF Has(pressedKeys, "KeyW") \/ Has(pressedKeys, "ArrowUp")    THEN 1 ELSE 0
      down  == IF Has(pressedKeys, "KeyS") \/ Has(pressedKeys, "ArrowDown")  THEN 1 ELSE 0
      left  == IF Has(pressedKeys, "KeyA") \/ Has(pressedKeys, "ArrowLeft")  THEN 1 ELSE 0
      right == IF Has(pressedKeys, "KeyD") \/ Has(pressedKeys, "ArrowRight") THEN 1 ELSE 0
      q == IF Has(pressedKeys, "KeyQ") THEN 1 ELSE 0
      e == IF Has(pressedKeys, "KeyE") THEN 1 ELSE 0
      z == IF Has(pressedKeys, "KeyZ") THEN 1 ELSE 0
      c == IF Has(pressedKeys, "KeyC") THEN 1 ELSE 0
  IN [directionX |-> right - left - q + e - z + c,
      directionY |-> down - up - q - e + z + c]

\* A mutant of Normalize: the vector is returned as summed.
NormalizeSkipped(raw) ==
  [directionX |-> raw.directionX * Scale, directionY |-> raw.directionY * Scale]

\* Lines 64-68: divide by Math.hypot when it is positive.  The magnitude is
\* taken at resolution 1/Scale^2 so that the quotient is exact to 1/Scale.
Normalize(raw) ==
  LET magnitude == ISqrt((raw.directionX * raw.directionX
                           + raw.directionY * raw.directionY)
                          * Scale * Scale * Scale * Scale)
  IN IF magnitude > 0
       THEN [directionX |-> RoundDiv(raw.directionX * Scale * Scale * Scale, magnitude),
             directionY |-> RoundDiv(raw.directionY * Scale * Scale * Scale, magnitude)]
       ELSE [directionX |-> 0, directionY |-> 0]

getDirection(pressedKeys) == Normalize(RawDirection(pressedKeys))

\* ------------------------------------------------------------------ Player
NewPlayer(positionX, positionY) ==
  [positionX |-> positionX, positionY |-> positionY,
   radius |-> PlayerRadius * Scale, speed |-> PlayerSpeed]

\* A mutant of Clamp: only the lower edge is enforced.
ClampLowOnly(value, low, high) == Max(low, value)

\* Math.max(low, Math.min(high, value))
Clamp(value, low, high) == Max(low, Min(high, value))

\* Player.update(direction, canvasWidth, canvasHeight); widths in 1/Scale px
PlayerUpdate(player, direction, canvasWidth, canvasHeight) ==
  LET movedX == player.positionX + direction.directionX * player.speed
      movedY == player.positionY + direction.directionY * player.speed
  IN [player EXCEPT
        !.positionX = Clamp(movedX, player.radius, canvasWidth - player.radius),
        !.positionY = Clamp(movedY, player.radius, canvasHeight - player.radius)]

\* ------------------------------------------------- Projectile, Enemy, Particle
\* Projectile.update() and Enemy.update(): position += velocity
ProjectileUpdate(projectile) ==
  [projectile EXCEPT !.positionX = @ + projectile.velocity.horizontal,
                     !.positionY = @ + projectile.velocity.vertical]

\* A mutant of EnemyUpdate: the enemy loses half its velocity as it moves.
EnemyUpdateSlows(enemy) ==
  [enemy EXCEPT !.positionX = @ + enemy.velocity.horizontal,
                !.positionY = @ + enemy.velocity.vertical,
                !.velocity = [horizontal |-> enemy.velocity.horizontal \div 2,
                              vertical |-> enemy.velocity.vertical \div 2]]

EnemyUpdate(enemy) ==
  [enemy EXCEPT !.positionX = @ + enemy.velocity.horizontal,
                !.positionY = @ + enemy.velocity.vertical]

\* A mutant of ParticleUpdate: the particle fades two steps at a time.
ParticleUpdateFadesTwice(particle) ==
  LET horizontal == RoundDiv(particle.velocity.horizontal * FrictionPercent, 100)
      vertical   == RoundDiv(particle.velocity.vertical * FrictionPercent, 100)
  IN [particle EXCEPT !.velocity = [horizontal |-> horizontal, vertical |-> vertical],
                      !.positionX = @ + horizontal,
                      !.positionY = @ + vertical,
                      !.alpha = @ - 2 * AlphaStep]

\* Particle.update(): friction, then the move, then the fade
\* A mutant of ParticleUpdate: the particle moves before friction is applied.
ParticleUpdateMovesFirst(particle) ==
  [particle EXCEPT
     !.positionX = @ + particle.velocity.horizontal,
     !.positionY = @ + particle.velocity.vertical,
     !.velocity = [horizontal |-> RoundDiv(particle.velocity.horizontal * FrictionPercent, 100),
                   vertical |-> RoundDiv(particle.velocity.vertical * FrictionPercent, 100)],
     !.alpha = @ - AlphaStep]

ParticleUpdate(particle) ==
  LET horizontal == RoundDiv(particle.velocity.horizontal * FrictionPercent, 100)
      vertical   == RoundDiv(particle.velocity.vertical * FrictionPercent, 100)
  IN [particle EXCEPT !.velocity = [horizontal |-> horizontal, vertical |-> vertical],
                      !.positionX = @ + horizontal,
                      !.positionY = @ + vertical,
                      !.alpha = @ - AlphaStep]

\* ------------------------------------------------------------ ScoreManager
NewScoreManager == [score |-> 0, level |-> 1]

\* A mutant of addShrinkPoints: the kill award is given.
addShrinkPointsAsKill(scoreManager) ==
  [scoreManager EXCEPT !.score = @ + KillPoints]

addShrinkPoints(scoreManager) == [scoreManager EXCEPT !.score = @ + ShrinkPoints]

\* A mutant of addKillPoints: the shrink award is given.
addKillPointsAsShrink(scoreManager) ==
  [scoreManager EXCEPT !.score = @ + ShrinkPoints]

addKillPoints(scoreManager) == [scoreManager EXCEPT !.score = @ + KillPoints]

\* A mutant of setLevel: the score is cleared when the level is set.
setLevelClearsScore(scoreManager, newLevel) ==
  [scoreManager EXCEPT !.level = newLevel, !.score = 0]

\* A mutant of setLevel: the level shown is left as it was.
setLevelIgnored(scoreManager, newLevel) == scoreManager

setLevel(scoreManager, newLevel) == [scoreManager EXCEPT !.level = newLevel]

\* ----------------------------------------------------------------- game.js
VARIABLES
  session,        \* the closure state of every startGame call, in call order
  frameRequests,  \* requestAnimationFrame callbacks not yet run or cancelled
  timeouts,       \* setTimeout callbacks not yet run or cleared
  intervals,      \* setInterval callbacks not cleared
  listeners,      \* registered event listeners
  nextHandle,     \* the next id the browser hands out
  tweens,         \* gsap's active tweens, oldest first
  overlay,        \* the game-over overlay: visible, final score, onclick
  hist,           \* history (not program state): call counts, the last tick
  fnArgs,         \* arguments of a function called on its own
  fnResult        \* its result

vars == <<session, frameRequests, timeouts, intervals, listeners, nextHandle,
          tweens, overlay, hist, fnArgs, fnResult>>

None == "none"

\* null, the value of a timer or frame handle before it is assigned; the
\* browser's handles are positive
NoHandle == 0

CanvasW == CanvasWidth * Scale
CanvasH == CanvasHeight * Scale
centerX == CanvasW \div 2
centerY == CanvasH \div 2

\* array.splice(index, 1)
Splice(array, index) ==
  [k \in 1..(Len(array) - 1) |-> IF k < index THEN array[k] ELSE array[k + 1]]

Ids(array) == [k \in 1..Len(array) |-> array[k].id]

\* Lines 106-135 and 372-373: the state one startGame call creates
NewSession ==
  [player         |-> NewPlayer(centerX, centerY),
   input          |-> [pressedKeys |-> {}],
   scoreManager   |-> NewScoreManager,
   projectiles    |-> <<>>,
   enemies        |-> <<>>,
   particles      |-> <<>>,
   animationId    |-> NoHandle,
   spawnTimerId   |-> NoHandle,
   levelTimerId   |-> NoHandle,
   currentLevel   |-> 1,
   mousePositionX |-> centerX,
   mousePositionY |-> centerY,
   created        |-> 0]   \* objects created so far: the next object's identity

World ==
  [session |-> session, frameRequests |-> frameRequests, timeouts |-> timeouts,
   intervals |-> intervals, listeners |-> listeners, nextHandle |-> nextHandle,
   tweens |-> tweens, overlay |-> overlay, hist |-> hist]

Apply(w) ==
  /\ session' = w.session
  /\ frameRequests' = w.frameRequests
  /\ timeouts' = w.timeouts
  /\ intervals' = w.intervals
  /\ listeners' = w.listeners
  /\ nextHandle' = w.nextHandle
  /\ tweens' = w.tweens
  /\ overlay' = w.overlay
  /\ hist' = w.hist
  /\ UNCHANGED <<fnArgs, fnResult>>

\* A mutant of getSpawnDelay: the delay is not floored.
getSpawnDelayNoFloor(g) ==
  InitialSpawnDelay - (g.currentLevel - 1) * SpawnDelayStep

\* getSpawnDelay(), line 151
getSpawnDelay(g) ==
  Max(MinSpawnDelay, InitialSpawnDelay - (g.currentLevel - 1) * SpawnDelayStep)

\* A mutant of getEnemySpeed: the same multiplier at every level.
getEnemySpeedFlat(g) == Scale

\* getEnemySpeed(), line 161: 1 + (currentLevel - 1) * 0.2
getEnemySpeed(g) == Scale + RoundDiv((g.currentLevel - 1) * 2 * Scale, 10)

\* A velocity of the given speed (fixed point) along a unit vector
Scaled(unit, speed) ==
  [horizontal |-> RoundDiv(unit.horizontal * speed, Scale),
   vertical   |-> RoundDiv(unit.vertical * speed, Scale)]

\* ------------------------------------------------------ Math.random() draws
\* One spawnOneEnemy call draws a radius in [4, 30) px, two coins (which pair
\* of edges, which edge of the pair), a place along the edge (a percentage of
\* its length, in [0, 100)) and a hue in [0, 360).
SpawnDraws ==
  { [radius |-> 20, verticalEdge |-> TRUE,  low |-> TRUE, along |-> 40, hue |-> 0],
    [radius |-> 12, verticalEdge |-> TRUE,  low |-> TRUE, along |-> 50, hue |-> 120] }

\* One tick's draws for its particle bursts: particle k of a burst flies
\* along the axis QuarterTurns[(seed + k) % 4] at 1 + (seed + k) % 5 px per
\* frame with radius 1 + (seed + k) % 2 px.
ParticleSeeds == {0}
QuarterTurns ==
  << [horizontal |-> Scale, vertical |-> 0], [horizontal |-> 0, vertical |-> Scale],
     [horizontal |-> -Scale, vertical |-> 0], [horizontal |-> 0, vertical |-> -Scale] >>

\* clientX, clientY of the mouse events delivered, in pixels
MousePoints == { <<0, CanvasHeight \div 2>> }

\* e.code of the key events delivered to a running game
GameKeys == {"KeyS", "Space"}

\* ---------------------------------------------------------------- spawning
\* spawnOneEnemy(), lines 168-212
spawnOneEnemy(g, draw) ==
  LET radius == draw.radius * Scale
      spawnX == IF draw.verticalEdge
                  THEN (IF draw.low THEN 0 - radius ELSE CanvasW + radius)
                  ELSE RoundDiv(draw.along * CanvasW, 100)
      spawnY == IF draw.verticalEdge
                  THEN RoundDiv(draw.along * CanvasH, 100)
                  ELSE (IF draw.low THEN 0 - radius ELSE CanvasH + radius)
      towardPlayer == UnitVector(g.player.positionX - spawnX,
                                 g.player.positionY - spawnY)
      speedMultiplier == getEnemySpeed(g)
      enemy == [id |-> g.created + 1,
                positionX |-> spawnX, positionY |-> spawnY,
                radius |-> radius, color |-> draw.hue,
                velocity |-> Scaled(towardPlayer, speedMultiplier)]
  IN [g EXCEPT !.enemies = Append(@, enemy), !.created = @ + 1]

\* A mutant of scheduleNextSpawn: a timer of fixed period.
scheduleNextSpawnFixedPeriod(w, s) ==
  [w EXCEPT
     !.timeouts = @ \cup {[id |-> w.nextHandle, session |-> s,
                           delay |-> InitialSpawnDelay]},
     !.session[s].spawnTimerId = w.nextHandle,
     !.nextHandle = @ + 1]

\* A mutant of scheduleNextSpawn: the handle of the new timeout is not kept.
scheduleNextSpawnForgetsHandle(w, s) ==
  [w EXCEPT
     !.timeouts = @ \cup {[id |-> w.nextHandle, session |-> s,
                           delay |-> getSpawnDelay(w.session[s])]},
     !.nextHandle = @ + 1]

\* scheduleNextSpawn(), lines 214-221: the setTimeout call
scheduleNextSpawn(w, s) ==
  [w EXCEPT
     !.timeouts = @ \cup {[id |-> w.nextHandle, session |-> s,
                           delay |-> getSpawnDelay(w.session[s])]},
     !.session[s].spawnTimerId = w.nextHandle,
     !.nextHandle = @ + 1]

\* startLevelTimer(), lines 137-142: the setInterval call
startLevelTimer(w, s) ==
  [w EXCEPT
     !.intervals = @ \cup {[id |-> w.nextHandle, session |-> s]},
     !.session[s].levelTimerId = w.nextHandle,
     !.nextHandle = @ + 1]

\* A mutant of LevelUp: the level is raised by two.
LevelUpByTwo(g) ==
  LET raised == [g EXCEPT !.currentLevel = @ + 2]
  IN [raised EXCEPT !.scoreManager = setLevel(@, raised.currentLevel)]

\* The interval's callback, lines 139-140
LevelUp(g) ==
  LET raised == [g EXCEPT !.currentLevel = @ + 1]
  IN [raised EXCEPT !.scoreManager = setLevel(@, raised.currentLevel)]

\* --------------------------------------------------------------- explosion
NewParticle(positionX, positionY, color, seed, k) ==
  [positionX |-> positionX, positionY |-> positionY,
   radius |-> (1 + ((seed + k) % 2)) * Scale,
   color |-> color,
   velocity |-> Scaled(QuarterTurns[1 + ((seed + k) % 4)],
                       (1 + ((seed + k) % 5)) * Scale),
   alpha |-> InitialAlpha]

\* spawnExplosion(positionX, positionY, color, particleCount), lines 231-246
spawnExplosion(particles, positionX, positionY, color, particleCount, seed) ==
  particles \o [k \in 1..particleCount |->
                  NewParticle(positionX, positionY, color, seed, k - 1)]

\* ------------------------------------------------------------------ firing
\* fireProjectile(targetX, targetY), lines 384-410
fireProjectile(g, targetX, targetY) ==
  LET towardTarget == UnitVector(targetX - g.player.positionX,
                                 targetY - g.player.positionY)
      projectile == [id |-> g.created + 1,
                     positionX |-> g.player.positionX,
                     positionY |-> g.player.positionY,
                     radius |-> ProjectileRadius * Scale,
                     velocity |-> Scaled(towardTarget, ProjectileSpeed * Scale)]
  IN [g EXCEPT !.projectiles = Append(@, projectile), !.created = @ + 1]

\* handleCanvasClick(clickEvent), lines 415-417
handleCanvasClick(g, event) == fireProjectile(g, event.clientX, event.clientY)

\* handleMouseMove(moveEvent), lines 375-378
handleMouseMove(g, event) ==
  [g EXCEPT !.mousePositionX = event.clientX, !.mousePositionY = event.clientY]

\* handleSpacebarFire(keyEvent), lines 421-427
handleSpacebarFire(g, event) ==
  IF event.code = "Space"
    THEN fireProjectile(g, g.mousePositionX, g.mousePositionY)
    ELSE g

\* InputHandler's handleKeyDown and handleKeyUp, lines 26-32
handleKeyDown(g, event) ==
  [g EXCEPT !.input.pressedKeys = @ \cup {event.code}]

handleKeyUp(g, event) ==
  [g EXCEPT !.input.pressedKeys = @ \ {event.code}]

\* ------------------------------------------------------------ the browser
\* cancelAnimationFrame(id), clearTimeout(id), clearInterval(id): the
\* callback with that id, if any is pending, is dropped
Cancel(pending, id) == {callback \in pending : callback.id # id}

Listener(target, type, s, handler) ==
  [target |-> target, type |-> type, session |-> s, handler |-> handler]

\* ---------------------------------------------------------------- gsap.to
\* Duration of a tween, in ticks of gsap's ticker
TweenSteps == 1

\* gsap.to(enemy, { radius: target }): a tween of enemy.radius from its
\* current value to target; tweens already running are not overwritten
gsapTo(activeTweens, s, enemy, target) ==
  Append(activeTweens, [session |-> s, enemy |-> enemy.id,
                        from |-> enemy.radius, to |-> target, step |-> 0])

\* A mutant of TweenValue: the tween overshoots its target.
TweenValueOvershoots(tween, step) ==
  tween.from - 2 * RoundDiv((tween.from - tween.to) * step, TweenSteps)

\* The value a tween renders once it has made `step` of its TweenSteps steps
TweenValue(tween, step) ==
  tween.from - RoundDiv((tween.from - tween.to) * step, TweenSteps)

\* One render of one tween on the enemies of its session
RenderTween(enemies, tween) ==
  [k \in 1..Len(enemies) |->
     IF enemies[k].id = tween.enemy
       THEN [enemies[k] EXCEPT !.radius = TweenValue(tween, tween.step + 1)]
       ELSE enemies[k]]

RECURSIVE RenderTweens(_, _, _)
RenderTweens(sessions, activeTweens, k) ==
  IF k > Len(activeTweens) THEN sessions
  ELSE RenderTweens(
         [sessions EXCEPT ![activeTweens[k].session].enemies =
                             RenderTween(@, activeTweens[k])],
         activeTweens, k + 1)

\* One tick of gsap's ticker: every active tween renders, oldest first, and
\* a tween that has reached its target is dropped
gsapTick(w) ==
  LET advanced == [k \in 1..Len(w.tweens) |->
                     [w.tweens[k] EXCEPT !.step = @ + 1]]
  IN [w EXCEPT !.session = RenderTweens(@, w.tweens, 1),
               !.tweens = SelectSeq(advanced, LAMBDA tween : tween.step < TweenSteps)]

\* ----------------------------------------------------------------- animate
\* A mutant of IsOffScreen: the centre is tested, not the circle.
IsOffScreenCentre(projectile) ==
  \/ projectile.positionX < 0
  \/ projectile.positionX > CanvasW
  \/ projectile.positionY < 0
  \/ projectile.positionY > CanvasH

\* isOffScreen, lines 275-279
IsOffScreen(projectile) ==
  \/ projectile.positionX + projectile.radius < 0
  \/ projectile.positionX - projectile.radius > CanvasW
  \/ projectile.positionY + projectile.radius < 0
  \/ projectile.positionY - projectile.radius > CanvasH

\* Lines 268-284, from projectileIndex down to the first projectile (each
\* iteration is computed before the next one starts)
RECURSIVE ProjectileLoop(_, _)
ProjectileLoop(projectiles, projectileIndex) ==
  IF projectileIndex < 1 THEN projectiles
  ELSE LET projectile == ProjectileUpdate(projectiles[projectileIndex])
           updated == [projectiles EXCEPT ![projectileIndex] = projectile]
       IN CHOOSE final \in
            {ProjectileLoop(rest, projectileIndex - 1) :
               rest \in {IF IsOffScreen(projectile)
                           THEN Splice(updated, projectileIndex)
                           ELSE updated}} : TRUE

\* A mutant of ParticleLoop: every particle is updated and none is removed.
ParticleLoopKeepsAll(particles, particleIndex) ==
  [k \in 1..Len(particles) |->
     IF k <= particleIndex THEN ParticleUpdate(particles[k]) ELSE particles[k]]

\* Lines 289-296: from particleIndex down to the first particle, each
\* particle is updated and, when its alpha is <= 0, spliced out; what the
\* loop leaves is the updated particles whose alpha is positive, in order,
\* followed by the particles above particleIndex.
ParticleLoop(particles, particleIndex) ==
  SelectSeq([k \in 1..particleIndex |-> ParticleUpdate(particles[k])],
            LAMBDA particle : ~(particle.alpha <= 0))
    \o SubSeq(particles, particleIndex + 1, Len(particles))

\* distance - radius - radius < 1, lines 311 and 335
Overlap(a, b) ==
  Hypot(a.positionX - b.positionX, a.positionY - b.positionY)
    - a.radius - b.radius < Scale

\* History: what one collision did.
HitRecord(kind, before, after, enemy, projectile) ==
  [kind |-> kind, enemy |-> enemy, projectile |-> projectile.id,
   scoreBefore |-> before.scoreManager.score,
   scoreAfter |-> after.scoreManager.score,
   target |-> projectile,
   enemyRecords |-> before.enemies, projectileRecords |-> before.projectiles,
   enemiesBefore |-> Ids(before.enemies), enemiesAfter |-> Ids(after.enemies),
   projectilesBefore |-> Ids(before.projectiles),
   projectilesAfter |-> Ids(after.projectiles),
   particlesBefore |-> before.particles, particlesAfter |-> after.particles]

\* A mutant of ShrinkHit: the projectile is left in the projectiles.
ShrinkHitKeepsProjectile(t, s, enemyIndex, projectileIndex, seed) ==
  LET enemy == t.g.enemies[enemyIndex]
      projectile == t.g.projectiles[projectileIndex]
      after == [t.g EXCEPT
                  !.scoreManager = addShrinkPoints(@),
                  !.particles = spawnExplosion(@, enemy.positionX, enemy.positionY,
                                               enemy.color, ShrinkParticles, seed)]
  IN [t EXCEPT
        !.tweens = gsapTo(@, s, enemy, enemy.radius - ShrinkAmount * Scale),
        !.g = after,
        !.hits = Append(@, HitRecord("shrink", t.g, after, enemy, projectile)),
        !.shrunk = @ \cup {[session |-> s, enemy |-> enemy.id,
                            projectile |-> projectile.id]},
        !.log = @ \cup {[session |-> s, enemy |-> enemy.id,
                         projectile |-> projectile.id, kind |-> "shrink"]}]

\* Lines 336-344: the enemy survives
ShrinkHit(t, s, enemyIndex, projectileIndex, seed) ==
  LET enemy == t.g.enemies[enemyIndex]
      projectile == t.g.projectiles[projectileIndex]
      after == [t.g EXCEPT
                  !.scoreManager = addShrinkPoints(@),
                  !.particles = spawnExplosion(@, enemy.positionX, enemy.positionY,
                                               enemy.color, ShrinkParticles, seed),
                  !.projectiles = Splice(@, projectileIndex)]
  IN [t EXCEPT
        !.tweens = gsapTo(@, s, enemy, enemy.radius - ShrinkAmount * Scale),
        !.g = after,
        !.hits = Append(@, HitRecord("shrink", t.g, after, enemy, projectile)),
        !.shrunk = @ \cup {[session |-> s, enemy |-> enemy.id,
                            projectile |-> projectile.id]},
        !.log = @ \cup {[session |-> s, enemy |-> enemy.id,
                         projectile |-> projectile.id, kind |-> "shrink"]}]

\* Lines 345-354: the enemy is destroyed
KillHit(t, s, enemyIndex, projectileIndex, seed) ==
  LET enemy == t.g.enemies[enemyIndex]
      projectile == t.g.projectiles[projectileIndex]
      after == [t.g EXCEPT
                  !.scoreManager = addKillPoints(@),
                  !.particles = spawnExplosion(@, enemy.positionX, enemy.positionY,
                                               enemy.color, KillParticles, seed),
                  !.enemies = Splice(@, enemyIndex),
                  !.projectiles = Splice(@, projectileIndex)]
  IN [t EXCEPT
        !.g = after,
        !.hits = Append(@, HitRecord("kill", t.g, after, enemy, projectile)),
        !.log = @ \cup {[session |-> s, enemy |-> enemy.id,
                         projectile |-> projectile.id, kind |-> "kill"]}]

\* A mutant of CollisionLoop: no break after a kill, the destroyed enemy is
\* matched against the remaining projectiles as well.
RECURSIVE CollisionLoopNoBreak(_, _, _, _, _)
CollisionLoopNoBreak(t, s, enemyIndex, projectileIndex, seed) ==
  IF projectileIndex < 1 THEN t
  ELSE LET enemy == t.g.enemies[enemyIndex]
           projectile == t.g.projectiles[projectileIndex]
       IN IF Overlap(projectile, enemy)
            THEN IF enemy.radius - ShrinkAmount * Scale > KillThreshold * Scale
                   THEN CollisionLoopNoBreak(
                          ShrinkHit(t, s, enemyIndex, projectileIndex, seed),
                          s, enemyIndex, projectileIndex - 1, seed)
                   ELSE LET killed == KillHit(t, s, enemyIndex, projectileIndex, seed)
                            rest == CollisionLoopNoBreak(
                                      [killed EXCEPT !.g.enemies = t.g.enemies],
                                      s, enemyIndex, projectileIndex - 1, seed)
                        IN [rest EXCEPT !.g.enemies = killed.g.enemies]
            ELSE CollisionLoopNoBreak(t, s, enemyIndex, projectileIndex - 1, seed)

\* Lines 327-357: the projectiles, last first, against enemies[enemyIndex]
RECURSIVE CollisionLoop(_, _, _, _, _)
CollisionLoop(t, s, enemyIndex, projectileIndex, seed) ==
  IF projectileIndex < 1 THEN t
  ELSE LET enemy == t.g.enemies[enemyIndex]
           projectile == t.g.projectiles[projectileIndex]
       IN IF Overlap(projectile, enemy)
            THEN IF enemy.radius - ShrinkAmount * Scale > KillThreshold * Scale
                   THEN CollisionLoop(
                          ShrinkHit(t, s, enemyIndex, projectileIndex, seed),
                          s, enemyIndex, projectileIndex - 1, seed)
                   ELSE KillHit(t, s, enemyIndex, projectileIndex, seed)
            ELSE CollisionLoop(t, s, enemyIndex, projectileIndex - 1, seed)

\* History: the enemies, up to enemyIndex, that pass the player test once updated
Touching(g, enemyIndex) ==
  Cardinality({k \in 1..enemyIndex : Overlap(g.player, EnemyUpdate(g.enemies[k]))})

\* A mutant of EnemyLoop: the projectiles are tested against an enemy before
\* the player is.
RECURSIVE EnemyLoopCollisionFirst(_, _, _, _)
EnemyLoopCollisionFirst(t, s, enemyIndex, seed) ==
  IF enemyIndex < 1 THEN t
  ELSE LET enemy == EnemyUpdate(t.g.enemies[enemyIndex])
           moved == [t EXCEPT !.g.enemies[enemyIndex] = enemy]
           collided == CollisionLoop(moved, s, enemyIndex, Len(moved.g.projectiles), seed)
       IN IF Overlap(moved.g.player, enemy)
            THEN [collided EXCEPT !.over = TRUE, !.detected = enemyIndex,
                                  !.touching = Touching(t.g, enemyIndex)]
            ELSE EnemyLoopCollisionFirst(collided, s, enemyIndex - 1, seed)

\* A mutant of EnemyLoop: after a kill the enemy of the next lower index is
\* passed over.
RECURSIVE EnemyLoopSkipsAfterKill(_, _, _, _)
EnemyLoopSkipsAfterKill(t, s, enemyIndex, seed) ==
  IF enemyIndex < 1 THEN t
  ELSE LET enemy == EnemyUpdate(t.g.enemies[enemyIndex])
           moved == [t EXCEPT !.g.enemies[enemyIndex] = enemy]
           collided == CollisionLoop(moved, s, enemyIndex, Len(moved.g.projectiles), seed)
       IN IF Overlap(moved.g.player, enemy)
            THEN [moved EXCEPT !.over = TRUE, !.detected = enemyIndex,
                               !.touching = Touching(t.g, enemyIndex)]
            ELSE EnemyLoopSkipsAfterKill(
                   collided, s,
                   IF Len(collided.g.enemies) < Len(moved.g.enemies)
                     THEN enemyIndex - 2 ELSE enemyIndex - 1,
                   seed)

\* A mutant of EnemyLoop: an enemy whose centre is outside the canvas is
\* removed like a projectile that has left it.
RECURSIVE EnemyLoopDropsOutside(_, _, _, _)
EnemyLoopDropsOutside(t, s, enemyIndex, seed) ==
  IF enemyIndex < 1 THEN t
  ELSE LET enemy == EnemyUpdate(t.g.enemies[enemyIndex])
           moved == [t EXCEPT !.g.enemies[enemyIndex] = enemy]
       IN IF \/ enemy.positionX < 0 \/ enemy.positionX > CanvasW
             \/ enemy.positionY < 0 \/ enemy.positionY > CanvasH
            THEN EnemyLoopDropsOutside(
                   [t EXCEPT !.g.enemies = Splice(@, enemyIndex)],
                   s, enemyIndex - 1, seed)
            ELSE IF Overlap(moved.g.player, enemy)
              THEN [moved EXCEPT !.over = TRUE, !.detected = enemyIndex,
                                 !.touching = Touching(t.g, enemyIndex)]
              ELSE EnemyLoopDropsOutside(
                     CollisionLoop(moved, s, enemyIndex, Len(moved.g.projectiles), seed),
                     s, enemyIndex - 1, seed)

\* Lines 299-358, from enemyIndex down to the first enemy; t.over is the
\* early return of the game-over branch
RECURSIVE EnemyLoop(_, _, _, _)
EnemyLoop(t, s, enemyIndex, seed) ==
  IF enemyIndex < 1 THEN t
  ELSE LET enemy == EnemyUpdate(t.g.enemies[enemyIndex])
           moved == [t EXCEPT !.g.enemies[enemyIndex] = enemy]
       IN IF Overlap(moved.g.player, enemy)
            THEN [moved EXCEPT !.over = TRUE, !.detected = enemyIndex,
                               !.touching = Touching(t.g, enemyIndex)]
            ELSE EnemyLoop(
                   CollisionLoop(moved, s, enemyIndex, Len(moved.g.projectiles), seed),
                   s, enemyIndex - 1, seed)

\* A mutant of CancelScheduled: the spawn timeout is left running.
CancelScheduledKeepsSpawn(w, s) ==
  [w EXCEPT
     !.frameRequests = Cancel(@, w.session[s].animationId),
     !.intervals = Cancel(@, w.session[s].levelTimerId)]

\* A mutant of CancelScheduled: the frame request is left pending.
CancelScheduledKeepsFrame(w, s) ==
  [w EXCEPT
     !.timeouts = Cancel(@, w.session[s].spawnTimerId),
     !.intervals = Cancel(@, w.session[s].levelTimerId)]

\* Lines 313-315: cancelAnimationFrame, clearTimeout, clearInterval
CancelScheduled(w, s) ==
  [w EXCEPT
     !.frameRequests = Cancel(@, w.session[s].animationId),
     !.timeouts = Cancel(@, w.session[s].spawnTimerId),
     !.intervals = Cancel(@, w.session[s].levelTimerId)]

\* A mutant of InputHandlerDestroy: the key listeners of every session are
\* removed.
InputHandlerDestroyEverySession(registered, s) ==
  {listener \in registered :
     listener.handler \notin {"handleKeyDown", "handleKeyUp"}}

\* InputHandler.destroy(), lines 77-80
InputHandlerDestroy(registered, s) ==
  registered \ {Listener("window", "keydown", s, "handleKeyDown"),
                Listener("window", "keyup", s, "handleKeyUp")}

\* A mutant of DetachListeners: input.destroy() is not called.
DetachListenersKeepsInput(w, s) ==
  [w EXCEPT !.listeners =
     @ \ {Listener("canvas", "click", s, "handleCanvasClick"),
          Listener("canvas", "mousemove", s, "handleMouseMove"),
          Listener("window", "keydown", s, "handleSpacebarFire")}]

\* Lines 316-319: the three removeEventListener calls and input.destroy()
DetachListeners(w, s) ==
  [w EXCEPT !.listeners =
     InputHandlerDestroy(
       @ \ {Listener("canvas", "click", s, "handleCanvasClick"),
            Listener("canvas", "mousemove", s, "handleMouseMove"),
            Listener("window", "keydown", s, "handleSpacebarFire")},
       s)]

\* endGame(finalScore), lines 435-457
endGame(w, s, finalScore) ==
  [w EXCEPT
     !.overlay = [visible |-> TRUE, finalScoreText |-> finalScore, onclick |-> s],
     !.hist.endGameCalls[s] = @ + 1]

\* The game-over branch, lines 311-324
GameOver(w, s) ==
  endGame(DetachListeners(CancelScheduled(w, s), s), s,
          w.session[s].scoreManager.score)

\* animate(), lines 251-362
animate(w, s, seed) ==
  LET g == w.session[s]
      handle == w.nextHandle
      moved == [g EXCEPT
                  !.animationId = handle,
                  !.player = PlayerUpdate(@, getDirection(g.input.pressedKeys),
                                          CanvasW, CanvasH),
                  !.projectiles = ProjectileLoop(@, Len(@)),
                  !.particles = ParticleLoop(@, Len(@))]
      t == EnemyLoop([g |-> moved, tweens |-> w.tweens, hits |-> <<>>,
                      shrunk |-> {}, log |-> {}, over |-> FALSE, touching |-> 0,
                      detected |-> 0],
                     s, Len(moved.enemies), seed)
      tick == [session |-> s, over |-> t.over, touching |-> t.touching,
               detected |-> t.detected,
               hits |-> t.hits,
               before |-> [projectiles |-> g.projectiles,
                           particles |-> g.particles,
                           enemies |-> g.enemies],
               afterLoops |-> [projectiles |-> moved.projectiles,
                               particles |-> moved.particles],
               atStart |-> [projectiles |-> Len(g.projectiles),
                            enemies |-> Len(g.enemies),
                            particles |-> Len(g.particles),
                            score |-> g.scoreManager.score,
                            level |-> g.scoreManager.level,
                            currentLevel |-> g.currentLevel]]
      ticked == [w EXCEPT
                   !.frameRequests = @ \cup {[id |-> handle, session |-> s]},
                   !.nextHandle = @ + 1,
                   !.session[s] = t.g,
                   !.tweens = t.tweens,
                   !.hist.calls[s].animate = @ + 1,
                   !.hist.terminalTicks[s] = @ + (IF t.over THEN 1 ELSE 0),
                   !.hist.shrinkHits = @ \cup t.shrunk,
                   !.hist.hitLog = @ \cup {[hit |-> hit,
                                             tick |-> w.hist.calls[s].animate + 1] :
                                              hit \in t.log},
                   !.hist.lastTick = tick]
  IN IF t.over THEN GameOver(ticked, s) ELSE ticked

\* A mutant of startGame's state creation: the level of the previous
\* session is carried over.
CreateSessionKeepsLevel(sessions) ==
  IF sessions = <<>> THEN Append(sessions, NewSession)
  ELSE Append(sessions,
              [NewSession EXCEPT
                 !.currentLevel = sessions[Len(sessions)].currentLevel])

\* Lines 106-135: every startGame call creates its own state
CreateSession(sessions) == Append(sessions, NewSession)

\* startGame(canvas, context), lines 105-463
startGame(w, seed) ==
  LET s == Len(w.session) + 1
      created ==
        [w EXCEPT
           !.session = CreateSession(@),
           !.listeners = @ \cup {Listener("window", "keydown", s, "handleKeyDown"),
                                 Listener("window", "keyup", s, "handleKeyUp"),
                                 Listener("canvas", "click", s, "handleCanvasClick"),
                                 Listener("canvas", "mousemove", s, "handleMouseMove"),
                                 Listener("window", "keydown", s, "handleSpacebarFire")},
           !.hist.calls = Append(@, [animate |-> 0, spawn |-> 0, levelUp |-> 0]),
           !.hist.endGameCalls = Append(@, 0),
           !.hist.terminalTicks = Append(@, 0)]
  IN startLevelTimer(scheduleNextSpawn(animate(created, s, seed), s), s)

\* restartButton.onclick as if a handler of an earlier game over had stayed
\* beside the new one: both run
restartClickedTwice(w, seed) ==
  startGame(startGame([w EXCEPT !.overlay.visible = FALSE], seed), seed)

\* restartButton.onclick, lines 446-456
restartClicked(w, seed) ==
  startGame([w EXCEPT !.overlay.visible = FALSE], seed)

\* ----------------------------------------------------------- event dispatch
\* The listeners of session s registered for the event run in the order of
\* their registration.
RunListeners(registered, g, s, target, type, event) ==
  LET on(handler) == Listener(target, type, s, handler) \in registered
      a == IF on("handleKeyDown") THEN handleKeyDown(g, event) ELSE g
      b == IF on("handleKeyUp") THEN handleKeyUp(a, event) ELSE a
      c == IF on("handleCanvasClick") THEN handleCanvasClick(b, event) ELSE b
      d == IF on("handleMouseMove") THEN handleMouseMove(c, event) ELSE c
  IN IF on("handleSpacebarFire") THEN handleSpacebarFire(d, event) ELSE d

Dispatch(w, target, type, event) ==
  [w EXCEPT !.session =
     [s \in DOMAIN w.session |->
        RunListeners(w.listeners, w.session[s], s, target, type, event)]]

MouseEvent(point) == [clientX |-> point[1] * Scale, clientY |-> point[2] * Scale]

\* ------------------------------------------------------------------ actions
\* History: one more step delivered; an input event delivered when the
\* newest session has ended is noted as late.
Step(w) == [w EXCEPT !.hist.steps = @ + 1]

Count(w, kind) == [w EXCEPT !.hist.count[kind] = @ + 1]

Ended(h, s) == h.endGameCalls[s] > 0

Input(w, kind) ==
  IF Ended(w.hist, Len(w.session))
    THEN [Step(w) EXCEPT !.hist.late = @ \cup {kind}]
    ELSE Step(w)

\* The browser runs a requested animation frame callback.
FrameCallback(w, request, seed) ==
  animate([w EXCEPT !.frameRequests = @ \ {request}], request.session, seed)

AnimationFrame ==
  \E request \in frameRequests, seed \in ParticleSeeds :
    /\ hist.steps < MaxSteps
    /\ Apply(Step(FrameCallback(World, request, seed)))

\* The callback of a spawn timeout, lines 218-219
SpawnCallback(w, timeout, draw) ==
  LET s == timeout.session
      spawned == spawnOneEnemy(w.session[s], draw)
      enemy == spawned.enemies[Len(spawned.enemies)]
      fired == [w EXCEPT
                  !.timeouts = @ \ {timeout},
                  !.session[s] = spawned,
                  !.hist.calls[s].spawn = @ + 1,
                  !.hist.spawned = @ \cup {[session |-> s,
                                            enemy |-> enemy.id,
                                            radius |-> enemy.radius,
                                            velocity |-> enemy.velocity,
                                            positionX |-> enemy.positionX,
                                            positionY |-> enemy.positionY,
                                            playerX |-> w.session[s].player.positionX,
                                            playerY |-> w.session[s].player.positionY,
                                            level |-> w.session[s].currentLevel,
                                            frames |-> w.hist.calls[s].animate,
                                            timerDelay |-> timeout.delay]}]
  IN scheduleNextSpawn(fired, s)

\* A spawn timeout fires.
SpawnTimer ==
  \E timeout \in timeouts, draw \in SpawnDraws :
    /\ hist.steps < MaxSteps
    /\ hist.count.spawns < MaxSpawns
    /\ Apply(Step(Count(SpawnCallback(World, timeout, draw), "spawns")))

\* The level interval fires: lines 139-140.
LevelTimer ==
  \E interval \in intervals :
    /\ hist.steps < MaxSteps
    /\ hist.count.levelUps < MaxLevelUps
    /\ LET s == interval.session
       IN Apply(Step(Count([World EXCEPT !.session[s] = LevelUp(@),
                                         !.hist.calls[s].levelUp = @ + 1],
                           "levelUps")))

CanvasClick ==
  \E point \in MousePoints :
    /\ hist.steps < MaxSteps
    /\ hist.count.clicks < MaxClicks
    /\ Apply(Input(Count(Dispatch(World, "canvas", "click", MouseEvent(point)),
                         "clicks"),
                   "click"))

CanvasMouseMove ==
  \E point \in MousePoints :
    /\ hist.steps < MaxSteps
    /\ hist.count.mouseMoves < MaxMouseMoves
    /\ Apply(Input(Count(Dispatch(World, "canvas", "mousemove", MouseEvent(point)),
                         "mouseMoves"),
                   "mousemove"))

KeyDown ==
  \E code \in GameKeys :
    /\ hist.steps < MaxSteps
    /\ hist.count.keyEvents < MaxKeyEvents
    /\ Apply(Input(Count(Dispatch(World, "window", "keydown", [code |-> code]),
                         "keyEvents"),
                   code))

KeyUp ==
  \E code \in GameKeys :
    /\ hist.steps < MaxSteps
    /\ hist.count.keyEvents < MaxKeyEvents
    /\ Apply(Input(Count(Dispatch(World, "window", "keyup", [code |-> code]),
                         "keyEvents"),
                   "keyup"))

\* gsap's ticker renders the active tweens.
GsapTick ==
  /\ hist.steps < MaxSteps
  /\ tweens # <<>>
  /\ Apply(Step(gsapTick(World)))

\* The player clicks "Try Again" on the visible overlay.
RestartClick ==
  \E seed \in ParticleSeeds :
    /\ hist.steps < MaxSteps
    /\ overlay.visible
    /\ overlay.onclick # 0
    /\ Len(session) < MaxSessions
    /\ Apply(Step(restartClicked(World, seed)))

\* -------------------------------------------------------------------- Init
EmptyWorld ==
  [session |-> <<>>, frameRequests |-> {}, timeouts |-> {}, intervals |-> {},
   listeners |-> {}, nextHandle |-> 1, tweens |-> <<>>,
   overlay |-> [visible |-> FALSE, finalScoreText |-> -1, onclick |-> 0],
   hist |-> [calls |-> <<>>, endGameCalls |-> <<>>, terminalTicks |-> <<>>,
             lastTick |-> [session |-> 0, over |-> FALSE, touching |-> 0,
                           detected |-> 0,
                           hits |-> <<>>,
                           before |-> [projectiles |-> <<>>, particles |-> <<>>,
                                       enemies |-> <<>>],
                           afterLoops |-> [projectiles |-> <<>>, particles |-> <<>>],
                           atStart |-> [projectiles |-> 0, enemies |-> 0,
                                        particles |-> 0, score |-> 0,
                                        level |-> 0, currentLevel |-> 0]],
             steps |-> 0, late |-> {}, spawned |-> {}, shrinkHits |-> {},
             hitLog |-> {},
             count |-> [spawns |-> 0, levelUps |-> 0, clicks |-> 0,
                        keyEvents |-> 0, mouseMoves |-> 0]]]

\* main.js, line 20: the page loads and calls startGame once
Loaded == startGame(EmptyWorld, 0)

GameInit ==
  /\ session = Loaded.session
  /\ frameRequests = Loaded.frameRequests
  /\ timeouts = Loaded.timeouts
  /\ intervals = Loaded.intervals
  /\ listeners = Loaded.listeners
  /\ nextHandle = Loaded.nextHandle
  /\ tweens = Loaded.tweens
  /\ overlay = Loaded.overlay
  /\ hist = Loaded.hist

NotCalled == [done |-> FALSE]

Init ==
  /\ GameInit
  /\ fnArgs = [fn |-> None]
  /\ fnResult = NotCalled

Next ==
  \/ AnimationFrame
  \/ SpawnTimer
  \/ LevelTimer
  \/ CanvasClick
  \/ CanvasMouseMove
  \/ KeyDown
  \/ KeyUp
  \/ GsapTick
  \/ RestartClick

Spec == Init /\ [][Next]_vars

\* ------------------------------------------- InputHandler.getDirection alone
\* Any set of key codes may be held when getDirection() is called.
InitDirection ==
  /\ GameInit
  /\ fnArgs \in [fn : {"getDirection"}, pressedKeys : SUBSET KeyCodes]
  /\ fnResult = NotCalled

CallGetDirection ==
  /\ fnArgs.fn = "getDirection"
  /\ ~fnResult.done
  /\ fnResult' = [done |-> TRUE, value |-> getDirection(fnArgs.pressedKeys),
                  raw |-> RawDirection(fnArgs.pressedKeys)]
  /\ UNCHANGED <<session, frameRequests, timeouts, intervals, listeners,
                 nextHandle, tweens, overlay, hist, fnArgs>>

SpecDirection == InitDirection /\ [][CallGetDirection]_vars

\* ---------------------------------------------------- Player.update alone
\* Positions a player is updated from, in pixels
PositionSamples == {-5, 0, 4, 10, 12, 15, 30}

\* Canvas widths and heights, in pixels; a window may be narrower than the
\* player is wide
CanvasSamples == {15, 19, 20, 25}

\* Directions: what getDirection() returns, and vectors that are not unit
DirectionSamples ==
  {getDirection(pressedKeys) : pressedKeys \in SUBSET {"KeyW", "KeyA", "KeyS", "KeyD"}}
    \cup {[directionX |-> a * Scale, directionY |-> b * Scale] : a, b \in {-20, 20}}

InitPlayer ==
  /\ GameInit
  /\ fnArgs \in [fn : {"PlayerUpdate"},
                  positionX : PositionSamples, positionY : {12},
                  direction : DirectionSamples,
                  canvasWidth : CanvasSamples, canvasHeight : {15, 25}]
  /\ fnResult = NotCalled

CallPlayerUpdate ==
  /\ fnArgs.fn = "PlayerUpdate"
  /\ ~fnResult.done
  /\ fnResult' = [done |-> TRUE,
                  value |-> PlayerUpdate(NewPlayer(fnArgs.positionX * Scale,
                                                   fnArgs.positionY * Scale),
                                         fnArgs.direction,
                                         fnArgs.canvasWidth * Scale,
                                         fnArgs.canvasHeight * Scale)]
  /\ UNCHANGED <<session, frameRequests, timeouts, intervals, listeners,
                 nextHandle, tweens, overlay, hist, fnArgs>>

SpecPlayer == InitPlayer /\ [][CallPlayerUpdate]_vars

\* ================================================================ properties
\* The handles session s holds
Handles(g) == {g.animationId, g.spawnTimerId, g.levelTimerId}

\* Session s has had the tick that detected a player-enemy overlap
Terminated(h, s) == h.terminalTicks[s] > 0

\* C1: once a tick of a session has detected a player-enemy overlap, no frame
\* callback, spawn callback or level-up callback of that session runs again,
\* whatever was pending or due when the overlap was detected.
NoCallbackAfterGameOver ==
  [][\A s \in DOMAIN session :
       Terminated(hist, s) => hist'.calls[s] = hist.calls[s]]_vars

\* C1, witness: a session whose three kinds of callback have run is over,
\* and the program has gone on to run a spawn callback of the next session.
GameOverThenLaterCallbacks ==
  /\ Len(session) = 2
  /\ Terminated(hist, 1)
  /\ hist.calls[1].animate > 1
  /\ hist.calls[1].spawn > 0
  /\ hist.calls[2].spawn > 0

\* C2: endGame is called at most once in a session, and exactly once when a
\* tick detects an overlap, however many enemies overlap the player in that
\* tick; a session that has ended has nothing scheduled that could take it
\* out of Ended.
EndGameOncePerSession ==
  \A s \in DOMAIN session :
    /\ hist.endGameCalls[s] <= 1
    /\ Terminated(hist, s) <=> hist.endGameCalls[s] = 1
    /\ hist.lastTick.session = s /\ hist.lastTick.touching > 0 => Ended(hist, s)
    /\ Ended(hist, s) =>
         /\ \A request \in frameRequests : request.session # s
         /\ overlay.onclick # 0

\* C2, witness: the tick that ended the session had two enemies on the player.
TwoEnemiesOnPlayer ==
  /\ hist.lastTick.over
  /\ hist.lastTick.touching >= 2
  /\ hist.endGameCalls[hist.lastTick.session] = 1

\* C3: the tick that detects game over leaves none of the session's five
\* listeners registered, and from then on no event adds a projectile to the
\* session, moves its mouse position or changes its pressedKeys.
InputDetachedAtGameOver ==
  [][\A s \in DOMAIN session :
       /\ Ended(hist', s) =>
            \A listener \in listeners' : listener.session # s
       /\ Ended(hist, s) =>
            /\ session'[s].projectiles = session[s].projectiles
            /\ session'[s].mousePositionX = session[s].mousePositionX
            /\ session'[s].mousePositionY = session[s].mousePositionY
            /\ session'[s].input = session[s].input]_vars

\* C3, witness: a click, a mouse move and a Space keydown have all been
\* dispatched after the only session ended.
EventsAfterGameOver ==
  /\ Len(session) = 1
  /\ Ended(hist, 1)
  /\ {"click", "mousemove", "Space"} \subseteq hist.late

\* C4: once endGame has been called for a session, nothing of that session's
\* state changes any more, the radius of an enemy under a shrink transition
\* included.
EndedSessionFrozen ==
  [][\A s \in DOMAIN session :
       Ended(hist, s) => session'[s] = session[s]]_vars

\* C5: a restart creates a session with score 0, level 1 in both places and
\* empty collections at its first tick, whose first spawn is scheduled
\* InitialSpawnDelay = 1000 ms ahead; the sessions before it are left as they
\* were and share no handle with it.
RestartStartsFresh ==
  [][Len(session') > Len(session) =>
       LET n == Len(session')
           g == session'[n]
       IN /\ n = Len(session) + 1
          /\ g.scoreManager = [score |-> 0, level |-> 1]
          /\ g.currentLevel = 1
          /\ g.projectiles = <<>> /\ g.enemies = <<>> /\ g.particles = <<>>
          /\ g.input.pressedKeys = {}
          /\ hist'.calls[n] = [animate |-> 1, spawn |-> 0, levelUp |-> 0]
          /\ hist'.lastTick.session = n
          /\ hist'.lastTick.atStart =
               [projectiles |-> 0, enemies |-> 0, particles |-> 0,
                score |-> 0, level |-> 1, currentLevel |-> 1]
          /\ {timeout.delay : timeout \in {t \in timeouts' : t.session = n}}
               = {1000}
          /\ ~overlay'.visible
          /\ \A s \in DOMAIN session :
               /\ session'[s] = session[s]
               /\ Handles(g) \cap Handles(session[s]) = {}]_vars

\* C5, witness: the restart followed a session that had reached level 2 and
\* ended with an enemy and a projectile in its collections.
RestartAfterPlay ==
  /\ Len(session) = 2
  /\ session[1].currentLevel = 2
  /\ session[1].enemies # <<>>
  /\ session[1].projectiles # <<>>
  /\ session[2].currentLevel = 1

\* The hit was made on an enemy that survives the shrink
Survives(hit) == hit.enemy.radius - 10 * Scale > 5 * Scale

Without(ids, id) == SelectSeq(ids, LAMBDA other : other # id)

\* The particles the hit appended
Burst(hit) ==
  SubSeq(hit.particlesAfter, Len(hit.particlesBefore) + 1, Len(hit.particlesAfter))

\* The burst of a hit: so many particles, each of the enemy's colour and at
\* the enemy's position, appended to the particles there were
BurstOf(hit, particleCount) ==
  /\ SubSeq(hit.particlesAfter, 1, Len(hit.particlesBefore)) = hit.particlesBefore
  /\ Len(Burst(hit)) = particleCount
  /\ \A k \in DOMAIN Burst(hit) :
       /\ Burst(hit)[k].color = hit.enemy.color
       /\ Burst(hit)[k].positionX = hit.enemy.positionX
       /\ Burst(hit)[k].positionY = hit.enemy.positionY
       /\ Burst(hit)[k].alpha = InitialAlpha

\* Exactly the projectile of the hit left the projectiles
OnlyThatProjectileRemoved(hit) ==
  /\ hit.projectilesAfter = Without(hit.projectilesBefore, hit.projectile)
  /\ Len(hit.projectilesAfter) = Len(hit.projectilesBefore) - 1

\* C6: every collision a tick resolves on an enemy with radius - 10 > 5 keeps
\* the enemy in the enemies, adds exactly 10 to the score, appends exactly 8
\* particles of the enemy's colour at the enemy's position and removes that
\* projectile and no other.
ShrinkHitEffects ==
  \A k \in DOMAIN hist.lastTick.hits :
    LET hit == hist.lastTick.hits[k]
    IN Survives(hit) =>
         /\ hit.enemiesAfter = hit.enemiesBefore
         /\ hit.enemy.id \in {session[hist.lastTick.session].enemies[e].id :
                                e \in DOMAIN session[hist.lastTick.session].enemies}
         /\ hit.scoreAfter = hit.scoreBefore + 10
         /\ BurstOf(hit, 8)
         /\ OnlyThatProjectileRemoved(hit)

\* C6, witness: a tick resolved a shrink hit while a second projectile was
\* in flight.
ShrinkHitAmongProjectiles ==
  \E k \in DOMAIN hist.lastTick.hits :
    /\ Survives(hist.lastTick.hits[k])
    /\ hist.lastTick.hits[k].kind = "shrink"
    /\ Len(hist.lastTick.hits[k].projectilesBefore) >= 2

\* C7: every collision a tick resolves on an enemy with radius - 10 <= 5
\* removes that enemy and that projectile and nothing else from the two
\* collections, adds exactly 100 to the score and appends exactly 24
\* particles of the enemy's colour at the enemy's position.
KillHitEffects ==
  \A k \in DOMAIN hist.lastTick.hits :
    LET hit == hist.lastTick.hits[k]
    IN ~Survives(hit) =>
         /\ hit.enemiesAfter = Without(hit.enemiesBefore, hit.enemy.id)
         /\ Len(hit.enemiesAfter) = Len(hit.enemiesBefore) - 1
         /\ \A e \in DOMAIN session[hist.lastTick.session].enemies :
              session[hist.lastTick.session].enemies[e].id # hit.enemy.id
         /\ hit.scoreAfter = hit.scoreBefore + 100
         /\ BurstOf(hit, 24)
         /\ OnlyThatProjectileRemoved(hit)

\* C7, witness: a tick resolved a kill while another enemy and another
\* projectile were present.
KillHitAmongOthers ==
  \E k \in DOMAIN hist.lastTick.hits :
    /\ ~Survives(hist.lastTick.hits[k])
    /\ hist.lastTick.hits[k].kind = "kill"
    /\ Len(hist.lastTick.hits[k].enemiesBefore) >= 2
    /\ Len(hist.lastTick.hits[k].projectilesBefore) >= 2

\* The shrink hits enemy `id` of session s has taken
ShrinkHitsOf(s, id) ==
  Cardinality({hit \in hist.shrinkHits : hit.session = s /\ hit.enemy = id})

\* The radius enemy `id` of session s was spawned with
SpawnRadius(s, id) ==
  (CHOOSE spawn \in hist.spawned : spawn.session = s /\ spawn.enemy = id).radius

\* A radius transition of enemy `id` of session s is running
InTransition(s, id) ==
  \E k \in DOMAIN tweens : tweens[k].session = s /\ tweens[k].enemy = id

\* C8: once its radius transitions have finished, an enemy that has taken k
\* shrink hits has a radius 10k below the radius it was spawned with, also
\* when hits fell in the same tick or during a running transition.
ShrinkHitsAddUp ==
  \A s \in DOMAIN session :
    \A e \in DOMAIN session[s].enemies :
      LET enemy == session[s].enemies[e]
      IN ~InTransition(s, enemy.id) =>
           enemy.radius = SpawnRadius(s, enemy.id)
                            - 10 * Scale * ShrinkHitsOf(s, enemy.id)

\* The vector has length 1, to the resolution of the arithmetic
UnitLength(direction) ==
  Hypot(direction.directionX, direction.directionY) \in (Scale - 1)..(Scale + 1)

NoDirection == [directionX |-> 0, directionY |-> 0]

Inside(position, radius, extent) == radius <= position /\ position <= extent - radius

\* C10, as stated: after Player.update the position lies in
\* [radius, canvasWidth - radius] x [radius, canvasHeight - radius], for any
\* direction and any canvas dimensions.
PlayerInsideAnyCanvas ==
  fnResult.done /\ fnArgs.fn = "PlayerUpdate" =>
    /\ Inside(fnResult.value.positionX, fnResult.value.radius,
              fnArgs.canvasWidth * Scale)
    /\ Inside(fnResult.value.positionY, fnResult.value.radius,
              fnArgs.canvasHeight * Scale)

\* C10, amended: after Player.update, for any direction, each coordinate
\* lies in [radius, extent - radius] when the canvas extent on that axis is
\* at least 2 * radius; on a narrower axis the coordinate is radius.
PlayerInsideWideCanvas ==
  fnResult.done /\ fnArgs.fn = "PlayerUpdate" =>
    LET player == fnResult.value
        width == fnArgs.canvasWidth * Scale
        height == fnArgs.canvasHeight * Scale
    IN /\ IF width >= 2 * player.radius
            THEN Inside(player.positionX, player.radius, width)
            ELSE player.positionX = player.radius
       /\ IF height >= 2 * player.radius
            THEN Inside(player.positionY, player.radius, height)
            ELSE player.positionY = player.radius

\* C10, witness: a move that would have left the canvas on the right was
\* held at canvasWidth - radius.
HeldAtRightEdge ==
  /\ fnResult.done
  /\ fnArgs.fn = "PlayerUpdate"
  /\ fnArgs.canvasWidth * Scale >= 2 * fnResult.value.radius
  /\ fnArgs.positionX * Scale + fnArgs.direction.directionX * PlayerSpeed
       > fnArgs.canvasWidth * Scale - fnResult.value.radius
  /\ fnResult.value.positionX = fnArgs.canvasWidth * Scale - fnResult.value.radius

\* ------------------------------------------------------ getSpawnDelay alone
\* getSpawnDelay() reads currentLevel only; the level is any L >= 1.
InitSpawnDelay ==
  /\ GameInit
  /\ fnArgs \in [fn : {"getSpawnDelay"}, currentLevel : 1..MaxLevel]
  /\ fnResult = NotCalled

CallGetSpawnDelay ==
  /\ fnArgs.fn = "getSpawnDelay"
  /\ ~fnResult.done
  /\ fnResult' = [done |-> TRUE,
                  value |-> getSpawnDelay([NewSession EXCEPT
                                             !.currentLevel = fnArgs.currentLevel])]
  /\ UNCHANGED <<session, frameRequests, timeouts, intervals, listeners,
                 nextHandle, tweens, overlay, hist, fnArgs>>

SpecSpawnDelay == InitSpawnDelay /\ [][CallGetSpawnDelay]_vars

\* getSpawnDelay() at level L
SpawnDelayAt(L) == getSpawnDelay([NewSession EXCEPT !.currentLevel = L])

\* C11: at currentLevel = L >= 1 getSpawnDelay() returns
\* max(200, 1000 - 75 * (L - 1)); the value does not increase from L to
\* L + 1, is never below 200 and is 200 for every L >= 12.
SpawnDelayFormula ==
  fnResult.done /\ fnArgs.fn = "getSpawnDelay" =>
    LET L == fnArgs.currentLevel
        linear == 1000 - 75 * (L - 1)
    IN /\ fnResult.value = (IF linear > 200 THEN linear ELSE 200)
       /\ SpawnDelayAt(L + 1) <= fnResult.value
       /\ fnResult.value >= 200
       /\ L >= 12 => fnResult.value = 200
       /\ L < 12 => fnResult.value > 200

\* C11, witness: the delay has been computed at a level where the linear
\* term is below the floor.
SpawnDelayAtFloor ==
  /\ fnResult.done
  /\ fnArgs.fn = "getSpawnDelay"
  /\ fnArgs.currentLevel = 12
  /\ fnResult.value = 200

\* C12: the level of a session is 1 at its start and is raised by exactly 1
\* by each firing of its level timer and by nothing else: after n firings
\* currentLevel, and the level ScoreManager shows, are n + 1.
LevelCountsTimerFirings ==
  \A s \in DOMAIN session :
    /\ session[s].currentLevel = hist.calls[s].levelUp + 1
    /\ session[s].scoreManager.level = session[s].currentLevel

\* C12, witness: the level timer has fired twice in a session in which
\* frames and a spawn have run too.
TwoLevelUps ==
  \E s \in DOMAIN session :
    /\ hist.calls[s].levelUp = 2
    /\ session[s].currentLevel = 3
    /\ hist.calls[s].animate > 1
    /\ hist.calls[s].spawn > 0

\* max(200, 1000 - 75 * (L - 1))
SpawnDelayOfLevel(L) ==
  IF 1000 - 75 * (L - 1) > 200 THEN 1000 - 75 * (L - 1) ELSE 200

\* C13: a spawn timer is scheduled at session start and right after each
\* spawn, with the delay of the level current at that moment; a pending
\* timer keeps its delay, and a level-up leaves the timers as they are, so
\* the new level takes effect at the next scheduling.
SpawnDelayFollowsLevel ==
  /\ \A timeout \in timeouts : timeout.delay = SpawnDelayOfLevel(1)
  /\ [][/\ \A timeout \in timeouts' \ timeouts :
             /\ timeout.delay =
                  SpawnDelayOfLevel(session'[timeout.session].currentLevel)
             /\ \/ timeout.session \notin DOMAIN session
                \/ hist'.calls[timeout.session].spawn
                     = hist.calls[timeout.session].spawn + 1
        /\ \A s \in DOMAIN session :
             hist'.calls[s].spawn # hist.calls[s].spawn =>
               \E timeout \in timeouts' \ timeouts : timeout.session = s
        /\ \A timeout \in timeouts : \A other \in timeouts' :
             other.id = timeout.id => other = timeout
        /\ \A s \in DOMAIN session :
             session'[s].currentLevel # session[s].currentLevel =>
               timeouts' = timeouts]_vars

\* C13, witness: a timer scheduled at level 1 fired at level 2, and the timer
\* scheduled after that spawn has the delay of level 2.
LevelUpWhileTimerPending ==
  \E spawn \in hist.spawned :
    /\ spawn.timerDelay = 1000
    /\ spawn.level = 2
    /\ \E timeout \in timeouts :
         timeout.session = spawn.session /\ timeout.delay = 925

\* The circle lies wholly beyond one of the four edges of the canvas
BeyondAnEdge(circle) ==
  \/ circle.positionX + circle.radius < 0
  \/ circle.positionX - circle.radius > CanvasWidth * Scale
  \/ circle.positionY + circle.radius < 0
  \/ circle.positionY - circle.radius > CanvasHeight * Scale

\* The projectiles a tick started with, each after its update
UpdatedProjectiles ==
  [k \in DOMAIN hist.lastTick.before.projectiles |->
     ProjectileUpdate(hist.lastTick.before.projectiles[k])]

\* C14: the projectile loop of a tick removes exactly the projectiles that,
\* once updated, lie wholly beyond an edge; as no projectile a tick starts
\* with lies beyond an edge, that tick is the first in which the condition
\* holds, and a projectile for which it does not hold is kept.
OffScreenRemovedOnTime ==
  /\ \A k \in DOMAIN hist.lastTick.before.projectiles :
       ~BeyondAnEdge(hist.lastTick.before.projectiles[k])
  /\ hist.lastTick.afterLoops.projectiles =
       SelectSeq(UpdatedProjectiles, LAMBDA projectile : ~BeyondAnEdge(projectile))
  /\ \A s \in DOMAIN session : \A k \in DOMAIN session[s].projectiles :
       ~BeyondAnEdge(session[s].projectiles[k])

\* C14, witness: a tick removed a projectile that had just left the canvas.
ProjectileLeftCanvas ==
  \E k \in DOMAIN UpdatedProjectiles :
    /\ BeyondAnEdge(UpdatedProjectiles[k])
    /\ \A j \in DOMAIN hist.lastTick.afterLoops.projectiles :
         hist.lastTick.afterLoops.projectiles[j].id # UpdatedProjectiles[k].id

\* ------------------------------------------------- a game already under way
\* The browser runs the pending frame callback `frames` times in a row
\* (the run is computed in two halves).
RECURSIVE RunFrames(_, _)
RunFrames(w, frames) ==
  IF frames = 0 THEN w
  ELSE IF frames = 1
    THEN CHOOSE final \in
           {FrameCallback(now, CHOOSE request \in now.frameRequests : TRUE, 0) :
              now \in {w}} : TRUE
    ELSE CHOOSE final \in
           {RunFrames(halfway, frames - frames \div 2) :
              halfway \in {RunFrames(now, frames \div 2) : now \in {w}}} : TRUE

\* A spawn draw whose enemy one hit destroys
SmallEnemyDraw ==
  CHOOSE draw \in SpawnDraws :
    draw.radius * Scale - ShrinkAmount * Scale <= KillThreshold * Scale

\* The game after a click, a frame, the spawn of a small enemy and the frame
\* in which the projectile destroys it: the 24 particles of the burst are new.
EnemyDestroyed ==
  CHOOSE final \in
    {RunFrames(spawned, 1) :
       spawned \in
         {SpawnCallback(flown, CHOOSE timeout \in flown.timeouts : TRUE,
                        SmallEnemyDraw) :
            flown \in
              {RunFrames(clicked, 1) :
                 clicked \in
                   {Dispatch(Loaded, "canvas", "click",
                             MouseEvent(CHOOSE point \in MousePoints : TRUE))}}}} : TRUE

\* That game so many frames later that its particles have 4 frames to live
BurstFading == RunFrames(EnemyDestroyed, InitialAlpha - 4 * AlphaStep)

InitLate ==
  \E late \in {BurstFading} :
    /\ session = late.session
    /\ frameRequests = late.frameRequests
    /\ timeouts = late.timeouts
    /\ intervals = late.intervals
    /\ listeners = late.listeners
    /\ nextHandle = late.nextHandle
    /\ tweens = late.tweens
    /\ overlay = late.overlay
    /\ hist = late.hist
    /\ fnArgs = [fn |-> None]
    /\ fnResult = NotCalled

SpecLate == InitLate /\ [][Next]_vars

\* The particles a tick started with, each after its update
UpdatedParticles ==
  [k \in DOMAIN hist.lastTick.before.particles |->
     ParticleUpdate(hist.lastTick.before.particles[k])]

\* The particles of the session of the last tick that the tick appended
\* after its particle loop
AppendedParticles ==
  SubSeq(session[hist.lastTick.session].particles,
         Len(hist.lastTick.afterLoops.particles) + 1,
         Len(session[hist.lastTick.session].particles))

\* C15: alpha is 1 (100 hundredths) for a new particle and each
\* Particle.update() lowers it by 0.01 (one hundredth); the particle loop of
\* a tick removes exactly the particles whose alpha, once updated, is <= 0,
\* and as no particle a tick starts with has alpha <= 0, that tick is the
\* first in which the alpha is <= 0.
ParticlesFadeThenGo ==
  /\ \A k \in DOMAIN UpdatedParticles :
       /\ hist.lastTick.before.particles[k].alpha \in 1..100
       /\ UpdatedParticles[k].alpha = hist.lastTick.before.particles[k].alpha - 1
  /\ hist.lastTick.afterLoops.particles =
       SelectSeq(UpdatedParticles, LAMBDA particle : particle.alpha > 0)
  /\ hist.lastTick.session # 0 =>
       \A k \in DOMAIN AppendedParticles : AppendedParticles[k].alpha = 100

\* C15, witness: a tick started with a particle of alpha 0.01 and removed it.
ParticleFadedOut ==
  /\ \E k \in DOMAIN hist.lastTick.before.particles :
       hist.lastTick.before.particles[k].alpha = 1
  /\ Len(hist.lastTick.afterLoops.particles) < Len(hist.lastTick.before.particles)

\* Enemy `id` of session s has taken a kill hit
Killed(s, id) ==
  \E entry \in hist.hitLog :
    entry.hit.session = s /\ entry.hit.enemy = id /\ entry.hit.kind = "kill"

\* C16: after every tick, terminal or not, no collection holds a destroyed
\* entity: no projectile wholly beyond an edge, no particle with alpha <= 0,
\* no enemy that has taken a kill hit.
NoDestroyedEntityKept ==
  \A s \in DOMAIN session :
    /\ \A k \in DOMAIN session[s].projectiles :
         ~BeyondAnEdge(session[s].projectiles[k])
    /\ \A k \in DOMAIN session[s].particles : session[s].particles[k].alpha > 0
    /\ \A k \in DOMAIN session[s].enemies : ~Killed(s, session[s].enemies[k].id)

\* C16, witness: one tick removed a projectile that left the canvas and the
\* particles that faded out, in a session in which an enemy had been killed.
AllKindsRemoved ==
  /\ \E k \in DOMAIN UpdatedProjectiles : BeyondAnEdge(UpdatedProjectiles[k])
  /\ \E k \in DOMAIN UpdatedParticles : UpdatedParticles[k].alpha <= 0
  /\ \E entry \in hist.hitLog :
       entry.hit.session = hist.lastTick.session /\ entry.hit.kind = "kill"

\* Where the enemy of a hit stood in the enemies when the hit was resolved
IndexOfEnemy(hit) ==
  CHOOSE k \in DOMAIN hit.enemyRecords : hit.enemyRecords[k].id = hit.enemy.id

\* C17: a projectile resolves at most one collision in its lifetime, hence
\* causes at most one award and one burst: it has left the projectiles once
\* it has hit, and the enemy it hits is the first it overlaps in the order
\* of the enemy loop, highest index first.
OneCollisionPerProjectile ==
  /\ \A one \in hist.hitLog : \A other \in hist.hitLog :
       one.hit.session = other.hit.session
         /\ one.hit.projectile = other.hit.projectile => one = other
  /\ \A entry \in hist.hitLog :
       \A k \in DOMAIN session[entry.hit.session].projectiles :
         session[entry.hit.session].projectiles[k].id # entry.hit.projectile
  /\ \A k \in DOMAIN hist.lastTick.hits :
       LET hit == hist.lastTick.hits[k]
       IN /\ Overlap(hit.target, hit.enemy)
          /\ \A j \in DOMAIN hit.enemyRecords :
               j > IndexOfEnemy(hit) => ~Overlap(hit.target, hit.enemyRecords[j])

\* C17, witness: a projectile hit an enemy while it also overlapped an enemy
\* of lower index, which took no hit in that tick.
HitWithSecondEnemyOverlapping ==
  /\ Len(hist.lastTick.hits) = 1
  /\ LET hit == hist.lastTick.hits[1]
     IN \E j \in DOMAIN hit.enemyRecords :
          /\ j < IndexOfEnemy(hit)
          /\ Overlap(hit.target, hit.enemyRecords[j])
          /\ Overlap(hit.target, EnemyUpdate(hit.enemyRecords[j]))

\* The hits of the last tick that came after hit number k
LaterHits(k) ==
  {hist.lastTick.hits[j] : j \in {i \in DOMAIN hist.lastTick.hits : i > k}}

\* C18: an enemy destroyed by a projectile is matched against no other
\* projectile, in that tick or later: the kill is the enemy's last hit and
\* its only kill, it awards 100 points once and removes that projectile
\* alone; every other projectile stays unless a hit on another enemy takes
\* it; and every hit removes entities that are still in their collections.
KilledEnemyMeetsNoOtherProjectile ==
  /\ \A kill \in hist.hitLog : \A other \in hist.hitLog :
       /\ kill.hit.kind = "kill"
       /\ other.hit.session = kill.hit.session
       /\ other.hit.enemy = kill.hit.enemy
       /\ other # kill
       => other.hit.kind = "shrink" /\ other.tick <= kill.tick
  /\ \A k \in DOMAIN hist.lastTick.hits :
       LET hit == hist.lastTick.hits[k]
       IN /\ \E e \in DOMAIN hit.enemiesBefore : hit.enemiesBefore[e] = hit.enemy.id
          /\ \E p \in DOMAIN hit.projectilesBefore :
               hit.projectilesBefore[p] = hit.projectile
          /\ hit.kind = "kill" =>
               /\ \A later \in LaterHits(k) : later.enemy.id # hit.enemy.id
               /\ hit.scoreAfter = hit.scoreBefore + 100
               /\ OnlyThatProjectileRemoved(hit)
               /\ \A p \in DOMAIN hit.projectilesAfter :
                    \/ \E q \in DOMAIN session[hist.lastTick.session].projectiles :
                         session[hist.lastTick.session].projectiles[q].id
                           = hit.projectilesAfter[p]
                    \/ \E later \in LaterHits(k) :
                         later.projectile = hit.projectilesAfter[p]

\* C18, witness: an enemy was destroyed while two projectiles overlapped it;
\* the tick resolved that one hit alone and the other projectile is still in
\* the projectiles.
KillWithSecondProjectileOverlapping ==
  /\ Len(hist.lastTick.hits) = 1
  /\ LET hit == hist.lastTick.hits[1]
     IN /\ hit.kind = "kill"
        /\ \E p \in DOMAIN hit.projectileRecords :
             /\ hit.projectileRecords[p].id # hit.projectile
             /\ Overlap(hit.projectileRecords[p], hit.enemy)
             /\ \E q \in DOMAIN session[hist.lastTick.session].projectiles :
                  session[hist.lastTick.session].projectiles[q].id
                    = hit.projectileRecords[p].id

\* What the spawn callback recorded for enemy `id` of session s
SpawnOf(s, id) ==
  CHOOSE spawn \in hist.spawned : spawn.session = s /\ spawn.enemy = id

\* C19: the velocity of every enemy is the one it was given at its spawn,
\* which points from its spawn position to where the player was at that
\* instant; no update, shrink hit, level-up or later move of the player has
\* changed it.
EnemyVelocityFixedAtSpawn ==
  \A s \in DOMAIN session : \A k \in DOMAIN session[s].enemies :
    LET enemy == session[s].enemies[k]
    IN /\ \E spawn \in hist.spawned : spawn.session = s /\ spawn.enemy = enemy.id
       /\ enemy.velocity = SpawnOf(s, enemy.id).velocity
       /\ enemy.velocity =
            Scaled(UnitVector(SpawnOf(s, enemy.id).playerX - SpawnOf(s, enemy.id).positionX,
                              SpawnOf(s, enemy.id).playerY - SpawnOf(s, enemy.id).positionY),
                   getEnemySpeed([currentLevel |-> SpawnOf(s, enemy.id).level]))

\* C19, witness: an enemy that flies obliquely has moved since its spawn and
\* has taken a shrink hit, the level has risen and the player has moved away
\* from where it was when the enemy was spawned.
EnemyOutlivesChanges ==
  \E s \in DOMAIN session : \E k \in DOMAIN session[s].enemies :
    LET enemy == session[s].enemies[k]
        spawn == SpawnOf(s, enemy.id)
    IN /\ enemy.velocity.horizontal # 0 /\ enemy.velocity.vertical # 0
       /\ enemy.positionX # spawn.positionX
       /\ ShrinkHitsOf(s, enemy.id) > 0
       /\ session[s].currentLevel > spawn.level
       /\ session[s].player.positionY # spawn.playerY

\* 1 + 0.2 (level - 1), in fixed point
SpeedMultiplierAt(level) == Scale + RoundDiv(2 * Scale * (level - 1), 10)

\* C20: every enemy was spawned with the speed multiplier 1 + 0.2 (L - 1),
\* L being the level when its spawn callback ran, along the unit vector from
\* its spawn position to the player; the multiplier the game computes grows
\* strictly with the level.
SpawnSpeedFollowsLevel ==
  /\ \A spawn \in hist.spawned :
       spawn.velocity =
         Scaled(UnitVector(spawn.playerX - spawn.positionX,
                           spawn.playerY - spawn.positionY),
                SpeedMultiplierAt(spawn.level))
  /\ \A s \in DOMAIN session :
       /\ getEnemySpeed(session[s]) = SpeedMultiplierAt(session[s].currentLevel)
       /\ \A level \in 1..MaxLevel :
            getEnemySpeed([session[s] EXCEPT !.currentLevel = level])
              < getEnemySpeed([session[s] EXCEPT !.currentLevel = level + 1])

\* C20, witness: an enemy was spawned at level 2 by a timer that had been
\* scheduled at level 1, and flies at 1.2 times the base speed.
SpawnedAfterLevelUp ==
  \E spawn \in hist.spawned :
    /\ spawn.level = 2
    /\ spawn.timerDelay = SpawnDelayOfLevel(1)
    /\ spawn.timerDelay # SpawnDelayOfLevel(2)
    /\ spawn.velocity.vertical = 0
    /\ spawn.velocity.horizontal = Scale + (2 * Scale) \div 10

\* The clean-up of the game-over branch, lines 313-319, made once more for
\* session s
CleanedUp(w, s) == DetachListeners(CancelScheduled(w, s), s)

HitsOf(s, kind) ==
  Cardinality({entry \in hist.hitLog :
                 entry.hit.session = s /\ entry.hit.kind = kind})

\* C22: the score of every session is 10 for each shrink hit plus 100 for
\* each kill hit it has resolved; it never decreases, and it changes only in
\* a step in which animate() ran for that session, by a sum of such awards.
ScoreIsSumOfAwards ==
  /\ [](\A s \in DOMAIN session :
          session[s].scoreManager.score
            = 10 * HitsOf(s, "shrink") + 100 * HitsOf(s, "kill"))
  /\ [][\A s \in DOMAIN session :
          /\ session'[s].scoreManager.score >= session[s].scoreManager.score
          /\ session'[s].scoreManager.score # session[s].scoreManager.score =>
               /\ hist'.calls[s].animate = hist.calls[s].animate + 1
               /\ hist'.calls[s].spawn = hist.calls[s].spawn
               /\ hist'.calls[s].levelUp = hist.calls[s].levelUp
               /\ hist'.count = hist.count]_vars

\* C22, witness: a session has scored 110 with one shrink hit and one kill
\* hit.
ShrinkAndKillScored ==
  \E s \in DOMAIN session :
    /\ session[s].scoreManager.score = 110
    /\ HitsOf(s, "shrink") = 1 /\ HitsOf(s, "kill") = 1

\* What a mapped key contributes to the direction
Contribution(code) ==
  CASE code \in {"KeyW", "ArrowUp"}    -> <<0, -1>>
    [] code \in {"KeyS", "ArrowDown"}  -> <<0, 1>>
    [] code \in {"KeyA", "ArrowLeft"}  -> <<-1, 0>>
    [] code \in {"KeyD", "ArrowRight"} -> <<1, 0>>
    [] code = "KeyQ" -> <<-1, -1>>
    [] code = "KeyE" -> <<1, -1>>
    [] code = "KeyZ" -> <<-1, 1>>
    [] code = "KeyC" -> <<1, 1>>
    [] OTHER -> <<0, 0>>

RECURSIVE SumOfContributions(_)
SumOfContributions(codes) ==
  IF codes = {} THEN <<0, 0>>
  ELSE LET code == CHOOSE any \in codes : TRUE
           rest == SumOfContributions(codes \ {code})
       IN <<Contribution(code)[1] + rest[1], Contribution(code)[2] + rest[2]>>

\* The letter key of the same direction as an arrow key
LetterKey(code) ==
  CASE code = "ArrowUp" -> "KeyW"
    [] code = "ArrowDown" -> "KeyS"
    [] code = "ArrowLeft" -> "KeyA"
    [] code = "ArrowRight" -> "KeyD"
    [] OTHER -> code

\* C23 as stated: the raw direction is the sum of the contributions of every
\* held mapped key, each held key counted once.
RawDirectionSumsEveryHeldKey ==
  fnResult.done =>
    <<fnResult.raw.directionX, fnResult.raw.directionY>>
      = SumOfContributions(fnArgs.pressedKeys)

\* C23, amended: the raw direction is the sum of the contributions of the
\* held diagonal keys and of the held cardinal directions, a direction being
\* held when either of its two keys is, and counted once even when both are;
\* opposing directions cancel on their axis, and W + D gives what E gives.
RawDirectionSumsHeldDirections ==
  fnResult.done =>
    /\ <<fnResult.raw.directionX, fnResult.raw.directionY>>
         = SumOfContributions({LetterKey(code) : code \in fnArgs.pressedKeys})
    /\ fnArgs.pressedKeys \in {{"KeyA", "KeyD"}, {"ArrowLeft", "KeyD"}, {"KeyQ", "KeyE"}}
         => fnResult.raw.directionX = 0
    /\ fnArgs.pressedKeys \in {{"KeyW", "KeyS"}, {"KeyW", "ArrowDown"}, {"KeyQ", "KeyZ"}}
         => fnResult.raw.directionY = 0
    /\ fnArgs.pressedKeys \in {{"KeyW", "KeyD"}, {"KeyE"}}
         => /\ fnResult.raw = [directionX |-> 1, directionY |-> -1]
            /\ fnResult.value.directionX = -fnResult.value.directionY
            /\ fnResult.value.directionX > 0

\* C23, witness: getDirection() was called with both keys of the up direction
\* and the D key held, and summed to (1, -1).
BothUpKeysHeld ==
  /\ fnResult.done
  /\ fnArgs.pressedKeys = {"KeyW", "ArrowUp", "KeyD"}
  /\ fnResult.raw = [directionX |-> 1, directionY |-> -1]

\* The particles a tick started with that its particle loop kept, and what
\* the loop made of them
ParticlesKept ==
  SelectSeq(hist.lastTick.before.particles, LAMBDA particle : particle.alpha > 1)

ParticlesAfterUpdate == hist.lastTick.afterLoops.particles

\* velocity * 0.98, the friction of Particle.js line 36
Slowed(velocity) ==
  [horizontal |-> RoundDiv(velocity.horizontal * 98, 100),
   vertical   |-> RoundDiv(velocity.vertical * 98, 100)]

\* C24 as stated: Particle.update() moves the particle by the velocity it
\* had before the update and then applies the friction.
ParticleMovesThenSlows ==
  /\ Len(ParticlesAfterUpdate) = Len(ParticlesKept)
  /\ \A k \in DOMAIN ParticlesKept :
       /\ ParticlesAfterUpdate[k].velocity = Slowed(ParticlesKept[k].velocity)
       /\ ParticlesAfterUpdate[k].positionX
            = ParticlesKept[k].positionX + ParticlesKept[k].velocity.horizontal
       /\ ParticlesAfterUpdate[k].positionY
            = ParticlesKept[k].positionY + ParticlesKept[k].velocity.vertical

\* C24, amended: Particle.update() first multiplies the velocity by the
\* friction, then moves the particle by the velocity so reduced, then lowers
\* alpha: new velocity = old velocity * friction, new position = old
\* position + new velocity.
ParticleSlowsThenMoves ==
  /\ Len(ParticlesAfterUpdate) = Len(ParticlesKept)
  /\ \A k \in DOMAIN ParticlesKept :
       /\ ParticlesAfterUpdate[k].velocity = Slowed(ParticlesKept[k].velocity)
       /\ ParticlesAfterUpdate[k].positionX
            = ParticlesKept[k].positionX + Slowed(ParticlesKept[k].velocity).horizontal
       /\ ParticlesAfterUpdate[k].positionY
            = ParticlesKept[k].positionY + Slowed(ParticlesKept[k].velocity).vertical
       /\ ParticlesAfterUpdate[k].alpha = ParticlesKept[k].alpha - 1

\* C24, witness: a tick updated a particle whose velocity the friction
\* changed, so that the two orders give different positions.
MovingParticleUpdated ==
  \E k \in DOMAIN ParticlesKept :
    /\ Slowed(ParticlesKept[k].velocity) # ParticlesKept[k].velocity
    /\ ParticlesAfterUpdate[k].velocity = Slowed(ParticlesKept[k].velocity)

\* The hits of a kind that the last tick resolved
TickHits(kind) ==
  Cardinality({k \in DOMAIN hist.lastTick.hits : hist.lastTick.hits[k].kind = kind})

\* Where enemy `id` stood in the enemies the last tick started with
IndexAtStart(id) ==
  CHOOSE k \in DOMAIN hist.lastTick.before.enemies :
    hist.lastTick.before.enemies[k].id = id

\* C25: in a tick that finds an enemy on the player, the enemies below the
\* detecting index are not updated, the hits of the tick are all on enemies
\* above it (none on the enemy that touched the player), no projectile goes
\* but by those hits, and endGame receives the score of the start of the tick
\* plus the awards of those hits, which is the score the session keeps.
TerminalCheckShortCircuits ==
  hist.lastTick.over =>
    LET s == hist.lastTick.session
        detected == hist.lastTick.detected
        atStart == hist.lastTick.before.enemies
        atEnd == session[s].enemies
    IN /\ detected \in 1..Len(atStart)
       /\ Len(atEnd) >= detected
       /\ \A k \in 1..detected : atEnd[k].id = atStart[k].id
       /\ \A k \in 1..(detected - 1) :
            /\ atEnd[k].positionX = atStart[k].positionX
            /\ atEnd[k].positionY = atStart[k].positionY
       /\ atEnd[detected].positionX
            = atStart[detected].positionX + atStart[detected].velocity.horizontal
       /\ atEnd[detected].positionY
            = atStart[detected].positionY + atStart[detected].velocity.vertical
       /\ Overlap(session[s].player,
                  [atEnd[detected] EXCEPT !.radius = atStart[detected].radius])
       /\ \A k \in DOMAIN hist.lastTick.hits :
            IndexAtStart(hist.lastTick.hits[k].enemy.id) > detected
       /\ Len(session[s].projectiles)
            = Len(hist.lastTick.afterLoops.projectiles) - Len(hist.lastTick.hits)
       /\ overlay.finalScoreText
            = hist.lastTick.atStart.score + 10 * TickHits("shrink") + 100 * TickHits("kill")
       /\ session[s].scoreManager.score = overlay.finalScoreText

\* C25, witness: the tick that ended the session had resolved a hit on an
\* enemy of higher index before it found an enemy on the player, and the
\* final score includes that award.
AwardThenGameOverInOneTick ==
  /\ hist.lastTick.over
  /\ Len(hist.lastTick.hits) >= 1
  /\ overlay.finalScoreText > hist.lastTick.atStart.score

\* The radius of the enemy of a transition, should it still be in `sessions`
RadiiOf(sessions, tween) ==
  {sessions[tween.session].enemies[e].radius :
     e \in {i \in DOMAIN sessions[tween.session].enemies :
              sessions[tween.session].enemies[i].id = tween.enemy}}

Advanced(entity) ==
  [entity EXCEPT !.positionX = @ + entity.velocity.horizontal,
                 !.positionY = @ + entity.velocity.vertical]

\* The enemy was destroyed in the last tick
KilledInTick(id) ==
  \E k \in DOMAIN hist.lastTick.hits :
    hist.lastTick.hits[k].kind = "kill" /\ hist.lastTick.hits[k].enemy.id = id

\* C27: a non-terminal tick updates every entity it starts with exactly
\* once, whatever it removes: the projectiles its loop leaves are those it
\* started with, each advanced once by its velocity, less those then wholly
\* beyond an edge; the particles it leaves are those it started with, each
\* one step further in position and alpha, less those faded out; and every
\* enemy it started with has either been destroyed in the tick or advanced
\* once by its velocity.
EveryEntityUpdatedOnce ==
  hist.lastTick.session # 0 /\ ~hist.lastTick.over =>
    /\ hist.lastTick.afterLoops.projectiles
         = SelectSeq([k \in DOMAIN hist.lastTick.before.projectiles |->
                        Advanced(hist.lastTick.before.projectiles[k])],
                     LAMBDA projectile : ~BeyondAnEdge(projectile))
    /\ Len(ParticlesAfterUpdate) = Len(ParticlesKept)
    /\ \A k \in DOMAIN ParticlesKept :
         /\ ParticlesAfterUpdate[k].alpha = ParticlesKept[k].alpha - 1
         /\ ParticlesAfterUpdate[k].positionX
              = ParticlesKept[k].positionX + ParticlesAfterUpdate[k].velocity.horizontal
         /\ ParticlesAfterUpdate[k].positionY
              = ParticlesKept[k].positionY + ParticlesAfterUpdate[k].velocity.vertical
    /\ \A k \in DOMAIN hist.lastTick.before.enemies :
         LET enemy == hist.lastTick.before.enemies[k]
         IN \/ KilledInTick(enemy.id)
            \/ \E e \in DOMAIN session[hist.lastTick.session].enemies :
                 LET now == session[hist.lastTick.session].enemies[e]
                 IN /\ now.id = enemy.id
                    /\ now.positionX = Advanced(enemy).positionX
                    /\ now.positionY = Advanced(enemy).positionY
                    /\ now.velocity = enemy.velocity

\* C27, witness: a non-terminal tick destroyed the enemy of the highest
\* index and removed its projectile while an enemy of lower index and another
\* projectile were in the collections.
RemovalAboveSurvivors ==
  /\ hist.lastTick.session # 0 /\ ~hist.lastTick.over
  /\ Len(hist.lastTick.before.enemies) >= 2
  /\ Len(hist.lastTick.before.projectiles) >= 2
  /\ KilledInTick(hist.lastTick.before.enemies[Len(hist.lastTick.before.enemies)].id)
  /\ ~KilledInTick(hist.lastTick.before.enemies[1].id)

\* C28: in every session the level the ScoreManager shows is the level
\* currentLevel that getSpawnDelay and getEnemySpeed read.
ShownLevelIsCurrentLevel ==
  \A s \in DOMAIN session :
    session[s].scoreManager.level = session[s].currentLevel

\* C28, witness: a session has reached level 3 with frames and a spawn
\* between and after its level-ups.
LevelThreeAmongCallbacks ==
  \E s \in DOMAIN session :
    /\ session[s].currentLevel = 3
    /\ session[s].scoreManager.level = 3
    /\ hist.calls[s].spawn > 0
    /\ hist.calls[s].animate > 1

\* The handles of the pending callbacks of session s
PendingOf(pending, s) == {callback.id : callback \in {c \in pending : c.session = s}}

\* C29: a session that has not ended has exactly one frame request, one
\* spawn timeout and one level interval pending, and animationId,
\* spawnTimerId and levelTimerId are their handles; a session that has ended
\* has none pending.
OnePendingActivityOfEachKind ==
  \A s \in DOMAIN session :
    IF Ended(hist, s)
      THEN /\ PendingOf(frameRequests, s) = {}
           /\ PendingOf(timeouts, s) = {}
           /\ PendingOf(intervals, s) = {}
      ELSE /\ PendingOf(frameRequests, s) = {session[s].animationId}
           /\ PendingOf(timeouts, s) = {session[s].spawnTimerId}
           /\ PendingOf(intervals, s) = {session[s].levelTimerId}
           /\ Cardinality({request \in frameRequests : request.session = s}) = 1
           /\ Cardinality({timeout \in timeouts : timeout.session = s}) = 1
           /\ Cardinality({interval \in intervals : interval.session = s}) = 1

\* C29, witness: the first session has ended and the second is running,
\* after a spawn and a frame of its own that renewed its handles.
RunningAfterRenewedHandles ==
  /\ Len(session) = 2
  /\ Ended(hist, 1) /\ ~Ended(hist, 2)
  /\ hist.calls[2].spawn > 0
  /\ hist.calls[2].animate > 1

\* The enemy, still among the enemies of session s, has been updated in
\* `frames` ticks since its spawn
UpdatedSinceSpawn(s, enemy, frames) ==
  /\ enemy.positionX = SpawnOf(s, enemy.id).positionX + frames * enemy.velocity.horizontal
  /\ enemy.positionY = SpawnOf(s, enemy.id).positionY + frames * enemy.velocity.vertical

LargeEnemyDraw ==
  CHOOSE draw \in SpawnDraws :
    draw.radius * Scale - ShrinkAmount * Scale > KillThreshold * Scale

\* The game after the frames that bring its enemy onto the player
RECURSIVE RunToGameOver(_)
RunToGameOver(w) ==
  IF Ended(w.hist, 1) THEN w
  ELSE CHOOSE final \in
         {RunToGameOver(later) : later \in {RunFrames(w, 1)}} : TRUE

\* The game after the spawn of an enemy and the frames that bring it onto
\* the player: endGame has shown the overlay and set restartButton.onclick.
FirstGameOver ==
  CHOOSE final \in
    {RunToGameOver(spawned) :
       spawned \in
         {SpawnCallback(Loaded, CHOOSE timeout \in Loaded.timeouts : TRUE,
                        LargeEnemyDraw)}} : TRUE

\* That game after a click on the restart button: the second session runs
Restarted == restartClicked(FirstGameOver, 0)

InitRestarted ==
  \E again \in {Restarted} :
    /\ session = again.session
    /\ frameRequests = again.frameRequests
    /\ timeouts = again.timeouts
    /\ intervals = again.intervals
    /\ listeners = again.listeners
    /\ nextHandle = again.nextHandle
    /\ tweens = again.tweens
    /\ overlay = again.overlay
    /\ hist = again.hist
    /\ fnArgs = [fn |-> None]
    /\ fnResult = NotCalled

SpecRestarted == InitRestarted /\ [][Next]_vars

\* The sessions with a frame request, a timeout or an interval pending
LiveSessions ==
  {callback.session : callback \in frameRequests \cup timeouts \cup intervals}

\* The sessions whose endGame has not been called
RunningSessions == {s \in DOMAIN session : ~Ended(hist, s)}

\* The step is a run of the restart handler: only it hides the overlay
RestartHandlerRuns == overlay.visible /\ ~overlay'.visible

=============================================================================
